---- MODULE Spec2Model ----
(***************************************************************************)
(* The in-memory file system of filesystem-rs: the Registry (a map from    *)
(* absolute path to node, plus the working directory) and the              *)
(* FakeFileSystem facade that resolves relative paths against the working  *)
(* directory before delegating, all under one lock.                        *)
(*                                                                         *)
(* A path is the sequence of its components; an absolute path starts with  *)
(* the root component "/".  Every Registry operation is an operator from   *)
(* the map (and its arguments) to the new map and the io::ErrorKind it     *)
(* returns ("Ok" for success); the actions are the facade's methods.       *)
(***************************************************************************)
EXTENDS Integers, Sequences, FiniteSets, TLC

\* files and cwd are the Registry; steps counts the facade calls; mutex is
\* the owner of the facade's lock (NoThread when it is free) and th holds,
\* for each thread, where it is in its facade call and what it has read.
VARIABLES files, cwd, steps, mutex, th

vars == <<files, cwd, steps, mutex, th>>

(* ------------------------------ bounds -------------------------------- *)

\* Number of facade calls in one run.
MaxOps == 3

\* Depth of the rename/move_dir and create_dir_all recursion after which a
\* call is taken to overflow the stack.
MaxRecursion == 8

\* The paths, contents and modes the callers pass in.
Root == <<"/">>

AbsArgs ==
  { Root, <<"/", "a">>, <<"/", "b">>, <<"/", "a", "a">>, <<"/", "a", "b">>,
    <<"/", "b", "a">>, <<"/", "a", "a", "a">> }

RelArgs == { <<"b">> }

PathArgs == AbsArgs \cup RelArgs

ContentArgs == { <<104, 105>>, <<255>> }

ModeArgs == { 128, 292 }

(* ------------------------------ modes --------------------------------- *)

ReadBits == 292

WriteBits == 146

DirLen == 4096

SymlinkLen == 34

DefaultMode == 420

RECURSIVE BitAnd(_, _)
BitAnd(a, b) ==
  IF a = 0 \/ b = 0 THEN 0
  ELSE (a % 2) * (b % 2) + 2 * BitAnd(a \div 2, b \div 2)

\* mode & 0o444 != 0
readable(mode) == BitAnd(mode, ReadBits) # 0

\* mode & 0o222 != 0
writable(mode) == BitAnd(mode, WriteBits) # 0

(* ------------------------------ paths --------------------------------- *)

is_relative(p) == p = <<>> \/ p[1] # "/"

join(base, p) == IF is_relative(p) THEN base \o p ELSE p

\* Path::parent() is None for "/" and for "".
has_parent(p) == p # <<>> /\ p # Root

parent(p) == SubSeq(p, 1, Len(p) - 1)

starts_with(p, base) ==
  Len(base) <= Len(p) /\ SubSeq(p, 1, Len(base)) = base

\* child.strip_prefix(from).unwrap_or(&child)
strip_prefix(p, base) ==
  IF starts_with(p, base) THEN SubSeq(p, Len(base) + 1, Len(p)) ELSE p

(* ------------------------------ nodes --------------------------------- *)

Dir_new == [type |-> "Dir", mode |-> DefaultMode, contents |-> <<>>, source |-> <<>>]

File_new(buf) ==
  [type |-> "File", mode |-> DefaultMode, contents |-> buf, source |-> <<>>]

Symlink_new(src) ==
  [type |-> "Symlink", mode |-> DefaultMode, contents |-> <<>>, source |-> src]

Put(f, path, node) ==
  [p \in DOMAIN f \cup {path} |-> IF p = path THEN node ELSE f[p]]

Drop(f, path) == [p \in DOMAIN f \ {path} |-> f[p]]

Res(f, kind) == [f |-> f, kind |-> kind]

(* ------------------------ symlink traversal --------------------------- *)

RECURSIVE recurse_from(_, _, _)
recurse_from(f, path, traversed) ==
  IF path \notin DOMAIN f THEN [kind |-> "NotFound", path |-> path]
  ELSE IF f[path].type = "Symlink"
       THEN IF path \in traversed
            THEN [kind |-> "Other", path |-> path]
            ELSE recurse_from(f, f[path].source, traversed \cup {path})
       ELSE [kind |-> "Ok", path |-> path]

\* recurse_symlink that reports a revisited path as NotFound.
recurse_symlink_loop_not_found(f, path) ==
  LET r == recurse_from(f, path, {})
  IN IF r.kind = "Other" THEN [kind |-> "NotFound", path |-> r.path] ELSE r

\* Ok with the path of the node the chain ends at, NotFound when it ends at
\* an absent path, Other when a path is visited twice.
recurse_symlink(f, path) == recurse_from(f, path, {})

ResolvesTo(f, path, type) ==
  LET r == recurse_symlink(f, path)
  IN r.kind = "Ok" /\ f[r.path].type = type

\* Node::is_file / Node::is_dir: the type of the node after dereferencing.
node_is_file(f, node) ==
  \/ node.type = "File"
  \/ node.type = "Symlink" /\ ResolvesTo(f, node.source, "File")

node_is_dir(f, node) ==
  \/ node.type = "Dir"
  \/ node.type = "Symlink" /\ ResolvesTo(f, node.source, "Dir")

(* ------------------------- lookup primitives -------------------------- *)

get(f, path) == IF path \in DOMAIN f THEN "Ok" ELSE "NotFound"

TypeAt(f, path) == IF path \in DOMAIN f THEN f[path].type ELSE "None"

get_dir(f, path) ==
  IF path \notin DOMAIN f THEN "NotFound"
  ELSE IF f[path].type = "Dir" THEN "Ok"
  ELSE IF f[path].type = "File" THEN "Other"
  ELSE IF ResolvesTo(f, path, "Dir") THEN "Ok" ELSE "Other"

\* get_dir_mut that reports every failure as NotFound.
get_dir_mut_not_found(f, path) ==
  IF path \notin DOMAIN f THEN "NotFound"
  ELSE IF f[path].type = "Dir"
       THEN IF writable(f[path].mode) THEN "Ok" ELSE "NotFound"
  ELSE IF f[path].type = "File" THEN "NotFound"
  ELSE IF ResolvesTo(f, path, "Dir") THEN "Ok" ELSE "NotFound"

get_dir_mut(f, path) ==
  IF path \notin DOMAIN f THEN "NotFound"
  ELSE IF f[path].type = "Dir"
       THEN IF writable(f[path].mode) THEN "Ok" ELSE "PermissionDenied"
  ELSE IF f[path].type = "File" THEN "Other"
  ELSE IF ResolvesTo(f, path, "Dir") THEN "Ok" ELSE "Other"

\* The path of the File the lookup ends at (the symlink's target, or path).
file_path(f, path) ==
  IF f[path].type = "Symlink" THEN recurse_symlink(f, path).path ELSE path

get_file(f, path) ==
  IF path \notin DOMAIN f THEN "NotFound"
  ELSE IF f[path].type = "File" THEN "Ok"
  ELSE IF f[path].type = "Dir" THEN "Other"
  ELSE IF ResolvesTo(f, path, "File") THEN "Ok" ELSE "Other"

get_file_mut(f, path) ==
  IF path \notin DOMAIN f THEN "NotFound"
  ELSE IF f[path].type = "File"
       THEN IF writable(f[path].mode) THEN "Ok" ELSE "Other"
  ELSE IF f[path].type = "Dir" THEN "PermissionDenied"
  ELSE IF ResolvesTo(f, path, "File") THEN "Ok" ELSE "Other"

insert(f, path, node) ==
  IF path \in DOMAIN f THEN Res(f, "AlreadyExists")
  ELSE IF has_parent(path) /\ get_dir_mut(f, parent(path)) # "Ok"
       THEN Res(f, get_dir_mut(f, parent(path)))
       ELSE Res(Put(f, path, node), "Ok")

remove(f, path) ==
  IF path \in DOMAIN f THEN Res(Drop(f, path), "Ok") ELSE Res(f, "NotFound")

\* descendants that reports every path as having none.
descendants_none(f, path) == {p \in DOMAIN f : FALSE}

descendants(f, path) ==
  LET r == recurse_symlink(f, path)
      base == IF path \in DOMAIN f /\ f[path].type = "Symlink" /\ r.kind = "Ok"
              THEN r.path ELSE path
  IN {p \in DOMAIN f : starts_with(p, base) /\ p # base}

children(f, path) ==
  {p \in DOMAIN f : has_parent(p) /\ parent(p) = path}

(* ---------------------------- the Registry ---------------------------- *)

current_dir(f, wd) == get_dir(f, wd)

set_current_dir(f, path) == get_dir(f, path)

is_dir(f, path) == path \in DOMAIN f /\ node_is_dir(f, f[path])

is_file(f, path) == path \in DOMAIN f /\ node_is_file(f, f[path])

create_dir(f, path) == insert(f, path, Dir_new)

create_file(f, path, buf) == insert(f, path, File_new(buf))

\* remove_dir without the check for descendants.
remove_dir_unchecked(f, path) ==
  IF get_dir(f, path) # "Ok" THEN Res(f, get_dir(f, path))
  ELSE remove(f, path)

remove_dir(f, path) ==
  IF get_dir(f, path) # "Ok" THEN Res(f, get_dir(f, path))
  ELSE IF descendants(f, path) # {} THEN Res(f, "Other")
  ELSE remove(f, path)

\* remove_dir_all that removes the children and leaves what is below them.
remove_dir_all_children_only(f, path) ==
  IF get_dir_mut(f, path) # "Ok" THEN Res(f, get_dir_mut(f, path))
  ELSE IF \E d \in descendants(f, path) : ~readable(f[d].mode)
       THEN Res(f, "PermissionDenied")
       ELSE remove([p \in DOMAIN f \ children(f, path) |-> f[p]], path)

\* remove_dir_all that checks readability while it removes, so that the
\* nodes removed before the unreadable one are gone when it fails.
remove_dir_all_check_late(f, path) ==
  IF get_dir_mut(f, path) # "Ok" THEN Res(f, get_dir_mut(f, path))
  ELSE IF \E d \in descendants(f, path) : ~readable(f[d].mode)
       THEN Res([p \in {q \in DOMAIN f : q \notin descendants(f, path)
                                         \/ ~readable(f[q].mode)} |-> f[p]],
                "PermissionDenied")
       ELSE remove([p \in DOMAIN f \ descendants(f, path) |-> f[p]], path)

remove_dir_all(f, path) ==
  IF get_dir_mut(f, path) # "Ok" THEN Res(f, get_dir_mut(f, path))
  ELSE IF \E d \in descendants(f, path) : ~readable(f[d].mode)
       THEN Res(f, "PermissionDenied")
       ELSE remove([p \in DOMAIN f \ descendants(f, path) |-> f[p]], path)

read_dir(f, path) ==
  IF get_dir(f, path) # "Ok"
  THEN [kind |-> get_dir(f, path), val |-> {}]
  ELSE [kind |-> "Ok", val |-> children(f, path)]

\* write_file without the fallback to create_file.
write_file_no_create(f, path, buf) ==
  LET k == get_file_mut(f, path)
  IN IF k = "Ok"
     THEN Res([f EXCEPT ![file_path(f, path)].contents = buf], "Ok")
     ELSE Res(f, k)

write_file(f, path, buf) ==
  LET k == get_file_mut(f, path)
  IN IF k = "Ok"
     THEN Res([f EXCEPT ![file_path(f, path)].contents = buf], "Ok")
     ELSE IF k = "NotFound" THEN create_file(f, path, buf) ELSE Res(f, k)

\* overwrite_file that creates the file when the path is absent.
overwrite_file_or_create(f, path, buf) ==
  LET k == get_file_mut(f, path)
  IN IF k = "Ok"
     THEN Res([f EXCEPT ![file_path(f, path)].contents = buf], "Ok")
     ELSE IF k = "NotFound" THEN insert(f, path, File_new(buf)) ELSE Res(f, k)

overwrite_file(f, path, buf) ==
  LET k == get_file_mut(f, path)
  IN IF k = "Ok"
     THEN Res([f EXCEPT ![file_path(f, path)].contents = buf], "Ok")
     ELSE Res(f, k)

\* read_file that does not look at the read bits.
read_file_unchecked(f, path) ==
  IF get_file(f, path) # "Ok" THEN [kind |-> get_file(f, path), val |-> <<>>]
  ELSE [kind |-> "Ok", val |-> f[file_path(f, path)].contents]

read_file(f, path) ==
  IF get_file(f, path) # "Ok" THEN [kind |-> get_file(f, path), val |-> <<>>]
  ELSE IF readable(f[file_path(f, path)].mode)
       THEN [kind |-> "Ok", val |-> f[file_path(f, path)].contents]
       ELSE [kind |-> "PermissionDenied", val |-> <<>>]

\* The number of continuation bytes (0x80..0xBF, the first of them within
\* lo..hi) that bytes starts with, up to n.
RECURSIVE continuation(_, _, _, _)
continuation(bytes, n, lo, hi) ==
  IF n = 0 \/ bytes = <<>> THEN 0
  ELSE IF bytes[1] >= lo /\ bytes[1] <= hi
       THEN 1 + continuation(Tail(bytes), n - 1, 128, 191)
       ELSE 0

\* String::from_utf8(vec).is_ok(): the bytes are well-formed UTF-8.
RECURSIVE from_utf8_ok(_)
from_utf8_ok(bytes) ==
  IF bytes = <<>> THEN TRUE
  ELSE LET b == bytes[1]
           n == IF b < 128 THEN 0
                ELSE IF b >= 194 /\ b <= 223 THEN 1
                ELSE IF b >= 224 /\ b <= 239 THEN 2
                ELSE IF b >= 240 /\ b <= 244 THEN 3
                ELSE 4
           lo == IF b = 224 THEN 160 ELSE IF b = 240 THEN 144 ELSE 128
           hi == IF b = 237 THEN 159 ELSE IF b = 244 THEN 143 ELSE 191
       IN /\ n < 4
          /\ continuation(Tail(bytes), n, lo, hi) = n
          /\ from_utf8_ok(SubSeq(bytes, n + 2, Len(bytes)))

\* The String holds the bytes it was made from.
read_file_to_string(f, path) ==
  LET r == read_file(f, path)
  IN IF r.kind # "Ok" THEN r
     ELSE IF from_utf8_ok(r.val) THEN r
     ELSE [kind |-> "InvalidData", val |-> <<>>]

read_file_into(f, path, buf) ==
  IF read_file(f, path).kind # "Ok"
  THEN [kind |-> read_file(f, path).kind, buf |-> buf, val |-> 0]
  ELSE [kind |-> "Ok", buf |-> buf \o read_file(f, path).val,
        val |-> Len(read_file(f, path).val)]

remove_file(f, path) ==
  IF get_file(f, path) = "Ok" THEN remove(f, path) ELSE Res(f, get_file(f, path))

\* copy_file that removes from once it has written to.
copy_file_moving(f, from, to) ==
  LET r == read_file(f, from)
  IN IF r.kind = "Ok"
     THEN LET w == write_file(f, to, r.val)
          IN IF w.kind = "Ok" /\ from \in DOMAIN w.f /\ from # to
             THEN Res(Drop(w.f, from), "Ok") ELSE w
     ELSE IF r.kind = "Other" THEN Res(f, "InvalidInput")
     ELSE Res(f, r.kind)

copy_file(f, from, to) ==
  LET r == read_file(f, from)
  IN IF r.kind = "Ok" THEN write_file(f, to, r.val)
     ELSE IF r.kind = "Other" THEN Res(f, "InvalidInput")
     ELSE Res(f, r.kind)

RECURSIVE create_dir_all_n(_, _, _)
create_dir_all_n(f, path, n) ==
  IF n = 0 THEN Res(f, "Overflow")
  ELSE IF path = <<>> THEN Res(f, "Ok")
  ELSE LET c == create_dir(f, path)
       IN IF c.kind = "Ok" THEN c
          ELSE IF c.kind # "NotFound"
               THEN IF is_dir(f, path) THEN Res(f, "Ok") ELSE c
          ELSE IF ~has_parent(path) THEN Res(f, "Other")
          ELSE LET up == create_dir_all_n(f, parent(path), n - 1)
               IN IF up.kind # "Ok" THEN up
                  ELSE create_dir_all_n(up.f, path, n - 1)

create_dir_all(f, path) == create_dir_all_n(f, path, MaxRecursion)

rename_path(f, from, to) ==
  LET r == remove(f, from)
  IN IF r.kind # "Ok" THEN r ELSE insert(r.f, to, f[from])

\* rename and move_dir call each other; the order in which move_dir visits
\* the children is the map's iteration order, which is unspecified, so both
\* give the set of outcomes over every order.  n is the recursion left.
RECURSIVE rename_n(_, _, _, _), move_dir_n(_, _, _, _), move_children(_, _, _, _, _)
move_children(f, todo, from, to, n) ==
  IF todo = {} THEN {Res(f, "Ok")}
  ELSE UNION { UNION { IF o.kind = "Ok"
                       THEN move_children(o.f, todo \ {child}, from, to, n)
                       ELSE {o}
                       : o \in rename_n(f, child, join(to, strip_prefix(child, from)), n) }
               : child \in todo }

move_dir_n(f, from, to, n) ==
  LET r == rename_path(f, from, to)
  IN IF r.kind # "Ok" THEN {r}
     ELSE move_children(r.f, children(r.f, from), from, to, n)

rename_n(f, from, to, n) ==
  IF n = 0 THEN {Res(f, "Overflow")}
  ELSE
  LET tf == TypeAt(f, from)
      tt == TypeAt(f, to)
      rf == recurse_symlink(f, from)
      rt == recurse_symlink(f, to)
      tyf == IF rf.kind = "Ok" THEN f[rf.path].type ELSE "None"
      tyt == IF rt.kind = "Ok" THEN f[rt.path].type ELSE "None"
      Err(k) == {Res(f, k)}
      Swap == {rename_path(f, from, to)}
      RmSwap == LET r == remove(f, to)
                IN IF r.kind # "Ok" THEN {r} ELSE {rename_path(r.f, from, to)}
      RmFileSwap == LET r == remove_file(f, to)
                    IN IF r.kind # "Ok" THEN {r} ELSE {rename_path(r.f, from, to)}
      RmMove == LET r == remove(f, to)
                IN IF r.kind # "Ok" THEN {r} ELSE move_dir_n(r.f, from, to, n - 1)
  IN CASE tf = "None" -> Err("NotFound")
       [] tf = "File" ->
           (CASE tt = "File" -> RmFileSwap
              [] tt = "None" -> Swap
              [] tt = "Symlink" ->
                   IF rt.kind # "Ok" THEN Err(rt.kind)
                   ELSE IF tyt = "File" THEN RmSwap ELSE Err("Other")
              [] tt = "Dir" -> Err("Other"))
       [] tf = "Dir" ->
           (CASE tt = "Dir" ->
                   IF descendants(f, to) = {} THEN RmMove ELSE Err("Other")
              [] tt = "Symlink" ->
                   IF rt.kind # "Ok" THEN Err(rt.kind)
                   ELSE IF tyt = "Dir" /\ descendants(f, rt.path) = {}
                        THEN RmMove ELSE Err("Other")
              [] tt = "File" -> Err("Other")
              [] tt = "None" -> move_dir_n(f, from, to, n - 1))
       [] tf = "Symlink" ->
           (CASE tt = "File" ->
                   IF rf.kind # "Ok" THEN Err(rf.kind)
                   ELSE IF tyf = "File" THEN RmSwap ELSE Err("Other")
              [] tt = "Dir" ->
                   IF rf.kind # "Ok" THEN Err(rf.kind)
                   ELSE IF tyf = "Dir" /\ descendants(f, to) = {}
                        THEN RmMove ELSE Err("Other")
              [] tt = "Symlink" ->
                   IF rf.kind = "Ok" /\ rt.kind = "NotFound" THEN Swap
                   ELSE IF rf.kind = "NotFound" /\ tyt = "File" THEN RmFileSwap
                   ELSE IF rf.kind # "Ok" THEN Err(rf.kind)
                   ELSE IF tyf = "File" /\ tyt = "File" THEN RmSwap
                   ELSE IF tyf = "Dir" /\ tyt = "Dir"
                        THEN IF descendants(f, rt.path) = {}
                             THEN RmSwap ELSE Err("Other")
                   ELSE Err("Other")
              [] tt = "None" -> Err("NotFound"))

rename(f, from, to) == rename_n(f, from, to, MaxRecursion)

\* mode &= !0o222 / mode |= 0o222
set_readonly_mode(mode, ro) ==
  IF ro THEN mode - BitAnd(mode, WriteBits)
  ELSE mode + WriteBits - BitAnd(mode, WriteBits)

readonly(f, path) ==
  IF path \notin DOMAIN f THEN [kind |-> "NotFound", val |-> FALSE]
  ELSE [kind |-> "Ok", val |-> ~writable(f[path].mode)]

\* set_readonly that replaces the mode by 0o444 or 0o666.
set_readonly_whole_mode(f, path, ro) ==
  IF path \notin DOMAIN f THEN Res(f, "NotFound")
  ELSE Res([f EXCEPT ![path].mode = IF ro THEN ReadBits ELSE ReadBits + WriteBits],
           "Ok")

set_readonly(f, path, ro) ==
  IF path \notin DOMAIN f THEN Res(f, "NotFound")
  ELSE Res([f EXCEPT ![path].mode = set_readonly_mode(@, ro)], "Ok")

mode(f, path) ==
  IF path \notin DOMAIN f THEN [kind |-> "NotFound", val |-> 0]
  ELSE [kind |-> "Ok", val |-> f[path].mode]

set_mode(f, path, m) ==
  IF path \notin DOMAIN f THEN Res(f, "NotFound")
  ELSE Res([f EXCEPT ![path].mode = m], "Ok")

len(f, path) ==
  IF path \notin DOMAIN f THEN 0
  ELSE IF f[path].type = "File" THEN Len(f[path].contents)
  ELSE IF f[path].type = "Dir" THEN DirLen ELSE SymlinkLen

symlink(f, src, dst) ==
  IF dst \in DOMAIN f THEN Res(f, "AlreadyExists")
  ELSE IF ~has_parent(dst) THEN Res(f, "NotFound")
  ELSE IF readonly(f, parent(dst)).kind # "Ok" THEN Res(f, "NotFound")
  ELSE IF readonly(f, parent(dst)).val THEN Res(f, "PermissionDenied")
  ELSE Res(Put(f, dst, Symlink_new(src)), "Ok")

(* ------------------------------ facade -------------------------------- *)

\* FakeFileSystem::apply*: a relative path is joined to the working
\* directory, or to "/" when the working directory is no directory.
\* apply without the fallback: the path is joined to the working directory
\* whether or not that still is a directory.
resolve_no_fallback(f, wd, path) ==
  IF is_relative(path) THEN join(wd, path) ELSE path

resolve(f, wd, path) ==
  IF is_relative(path)
  THEN join(IF current_dir(f, wd) = "Ok" THEN wd ELSE Root, path)
  ELSE path

Threads == {"t1", "t2"}

NoThread == "none"

\* A thread outside any facade call.
Idle ==
  [pc |-> "idle", op |-> "none", arg_from |-> <<>>, arg_to |-> <<>>,
   buf |-> <<>>, from |-> <<>>, to |-> <<>>, read |-> [kind |-> "Ok", val |-> <<>>]]

\* What each facade method that takes a path returns and leaves, called
\* with the paths p and q as the caller gives them (q is the second path of
\* copy_file, rename and symlink).  read_dir gives the entries' file names.
facade_results(f, wd, p, q, buf, m, ro) ==
  LET path == resolve(f, wd, p)
      to == resolve(f, wd, q)
  IN [ set_current_dir |->
         [kind |-> set_current_dir(f, path),
          cwd |-> IF set_current_dir(f, path) = "Ok" THEN path ELSE wd],
       is_dir |-> is_dir(f, path),
       is_file |-> is_file(f, path),
       create_dir |-> create_dir(f, path),
       create_dir_all |-> create_dir_all(f, path),
       remove_dir |-> remove_dir(f, path),
       remove_dir_all |-> remove_dir_all(f, path),
       read_dir |->
         [kind |-> read_dir(f, path).kind,
          val |-> {e[Len(e)] : e \in read_dir(f, path).val}],
       create_file |-> create_file(f, path, buf),
       write_file |-> write_file(f, path, buf),
       overwrite_file |-> overwrite_file(f, path, buf),
       read_file |-> read_file(f, path),
       read_file_to_string |-> read_file_to_string(f, path),
       read_file_into |-> read_file_into(f, path, buf),
       remove_file |-> remove_file(f, path),
       copy_file |-> copy_file(f, path, to),
       rename |-> rename(f, path, to),
       readonly |-> readonly(f, path),
       set_readonly |-> set_readonly(f, path, ro),
       len |-> len(f, path),
       mode |-> mode(f, path),
       set_mode |-> set_mode(f, path, m),
       symlink |-> symlink(f, path, to) ]

Init ==
  /\ files = [p \in {Root} |-> Dir_new]
  /\ cwd = Root
  /\ steps = 0
  /\ mutex = NoThread
  /\ th = [t \in Threads |-> Idle]

\* The call returns: the namespace is what the Registry left, also when
\* the result is an error.
Step(f) ==
  /\ files' = f
  /\ cwd' = cwd
  /\ steps' = steps + 1
  /\ UNCHANGED <<mutex, th>>

SetCurrentDir ==
  \E p \in PathArgs :
    /\ steps < MaxOps
    /\ cwd' = IF set_current_dir(files, resolve(files, cwd, p)) = "Ok"
              THEN resolve(files, cwd, p) ELSE cwd
    /\ files' = files
    /\ steps' = steps + 1
    /\ UNCHANGED <<mutex, th>>

CreateDir ==
  \E p \in PathArgs :
    /\ steps < MaxOps
    /\ Step(create_dir(files, resolve(files, cwd, p)).f)

CreateDirAll ==
  \E p \in PathArgs :
    LET r == create_dir_all(files, resolve(files, cwd, p))
    IN /\ steps < MaxOps
       /\ r.kind # "Overflow"
       /\ Step(r.f)

RemoveDir ==
  \E p \in PathArgs :
    /\ steps < MaxOps
    /\ Step(remove_dir(files, resolve(files, cwd, p)).f)

RemoveDirAll ==
  \E p \in PathArgs :
    /\ steps < MaxOps
    /\ Step(remove_dir_all(files, resolve(files, cwd, p)).f)

CreateFile ==
  \E p \in PathArgs, b \in ContentArgs :
    /\ steps < MaxOps
    /\ Step(create_file(files, resolve(files, cwd, p), b).f)

WriteFile ==
  \E p \in PathArgs, b \in ContentArgs :
    /\ steps < MaxOps
    /\ Step(write_file(files, resolve(files, cwd, p), b).f)

OverwriteFile ==
  \E p \in PathArgs, b \in ContentArgs :
    /\ steps < MaxOps
    /\ Step(overwrite_file(files, resolve(files, cwd, p), b).f)

RemoveFile ==
  \E p \in PathArgs :
    /\ steps < MaxOps
    /\ Step(remove_file(files, resolve(files, cwd, p)).f)

CopyFile ==
  \E p \in PathArgs, q \in PathArgs :
    /\ steps < MaxOps
    /\ Step(copy_file(files, resolve(files, cwd, p), resolve(files, cwd, q)).f)

\* A rename whose recursion never ends aborts the process: no next state.
Rename ==
  /\ steps < MaxOps
  /\ \E p \in PathArgs, q \in PathArgs :
       \E o \in rename(files, resolve(files, cwd, p), resolve(files, cwd, q)) :
         /\ o.kind # "Overflow"
         /\ Step(o.f)

SetReadonly ==
  \E p \in PathArgs, ro \in BOOLEAN :
    /\ steps < MaxOps
    /\ Step(set_readonly(files, resolve(files, cwd, p), ro).f)

SetMode ==
  \E p \in PathArgs, m \in ModeArgs :
    /\ steps < MaxOps
    /\ Step(set_mode(files, resolve(files, cwd, p), m).f)

MakeSymlink ==
  \E p \in PathArgs, q \in PathArgs :
    /\ steps < MaxOps
    /\ Step(symlink(files, resolve(files, cwd, p), resolve(files, cwd, q)).f)

Next ==
  \/ SetCurrentDir
  \/ CreateDir
  \/ CreateDirAll
  \/ RemoveDir
  \/ RemoveDirAll
  \/ CreateFile
  \/ WriteFile
  \/ OverwriteFile
  \/ RemoveFile
  \/ CopyFile
  \/ Rename
  \/ SetReadonly
  \/ SetMode
  \/ MakeSymlink

Spec == Init /\ [][Next]_vars

(* ------------------------ threads on one facade ----------------------- *)

\* Several threads share one FakeFileSystem.  A facade call takes the lock,
\* joins its path (its two paths, for rename and copy_file) to the working
\* directory, runs the Registry method on the joined paths and gives the
\* lock back when it returns.  copy_file is taken in its two halves, the
\* read of from and the write of to.

ThreadOps ==
  {"set_current_dir", "create_dir", "remove_dir", "write_file", "rename",
   "copy_file"}

TwoPathOps == {"rename", "copy_file"}

ThreadPaths == { <<"/", "a">>, <<"b">> }

\* What the Registry method op does to the namespace and the working
\* directory, given the joined paths: the set of its outcomes.
registry_call(op, f, wd, from, to, buf) ==
  CASE op = "set_current_dir" ->
         {[f |-> f, cwd |-> IF set_current_dir(f, from) = "Ok" THEN from ELSE wd]}
    [] op = "create_dir" -> {[f |-> create_dir(f, from).f, cwd |-> wd]}
    [] op = "remove_dir" -> {[f |-> remove_dir(f, from).f, cwd |-> wd]}
    [] op = "write_file" -> {[f |-> write_file(f, from, buf).f, cwd |-> wd]}
    [] op = "copy_file" -> {[f |-> copy_file(f, from, to).f, cwd |-> wd]}
    [] op = "rename" ->
         {[f |-> o.f, cwd |-> wd] : o \in {x \in rename(f, from, to) : x.kind # "Overflow"}}

\* The facade call as one step: both paths joined to the same working
\* directory, then the Registry method.
facade_call(op, f, wd, arg_from, arg_to, buf) ==
  registry_call(op, f, wd, resolve(f, wd, arg_from), resolve(f, wd, arg_to), buf)

\* A lock() that does not wait for the lock to be free.
Lock_no_wait(t) ==
  /\ steps < MaxOps
  /\ th[t].pc = "idle"
  /\ \E op \in ThreadOps, p \in ThreadPaths, q \in ThreadPaths, b \in ContentArgs :
       th' = [th EXCEPT ![t] =
                [Idle EXCEPT !.pc = "locked", !.op = op, !.arg_from = p,
                             !.arg_to = IF op \in TwoPathOps THEN q ELSE <<>>,
                             !.buf = IF op = "write_file" THEN b ELSE <<>>]]
  /\ mutex' = t
  /\ steps' = steps + 1
  /\ UNCHANGED <<files, cwd>>

\* self.registry.lock(): the thread enters its call when the lock is free.
Lock(t) ==
  /\ steps < MaxOps
  /\ mutex = NoThread
  /\ th[t].pc = "idle"
  /\ \E op \in ThreadOps, p \in ThreadPaths, q \in ThreadPaths, b \in ContentArgs :
       th' = [th EXCEPT ![t] =
                [Idle EXCEPT !.pc = "locked", !.op = op, !.arg_from = p,
                             !.arg_to = IF op \in TwoPathOps THEN q ELSE <<>>,
                             !.buf = IF op = "write_file" THEN b ELSE <<>>]]
  /\ mutex' = t
  /\ steps' = steps + 1
  /\ UNCHANGED <<files, cwd>>

\* The first (or only) path is joined to the working directory.
JoinFrom(t) ==
  /\ th[t].pc = "locked"
  /\ th' = [th EXCEPT ![t].from = resolve(files, cwd, th[t].arg_from),
                      ![t].pc = IF th[t].op \in TwoPathOps THEN "from" ELSE "joined"]
  /\ UNCHANGED <<files, cwd, steps, mutex>>

\* apply_mut_from_to joins the second path.
JoinTo(t) ==
  /\ th[t].pc = "from"
  /\ th' = [th EXCEPT ![t].to = resolve(files, cwd, th[t].arg_to),
                      ![t].pc = "joined"]
  /\ UNCHANGED <<files, cwd, steps, mutex>>

\* The Registry method runs on the joined paths.
Call(t) ==
  /\ th[t].pc = "joined"
  /\ th[t].op # "copy_file"
  /\ \E o \in registry_call(th[t].op, files, cwd, th[t].from, th[t].to, th[t].buf) :
       /\ files' = o.f
       /\ cwd' = o.cwd
  /\ th' = [th EXCEPT ![t].pc = "called"]
  /\ UNCHANGED <<steps, mutex>>

\* copy_file reads from ...
CopyRead(t) ==
  /\ th[t].pc = "joined"
  /\ th[t].op = "copy_file"
  /\ th' = [th EXCEPT ![t].read = read_file(files, th[t].from), ![t].pc = "read"]
  /\ UNCHANGED <<files, cwd, steps, mutex>>

\* ... and writes what it read to to.
CopyWrite(t) ==
  /\ th[t].pc = "read"
  /\ files' = IF th[t].read.kind = "Ok"
              THEN write_file(files, th[t].to, th[t].read.val).f
              ELSE files
  /\ th' = [th EXCEPT ![t].pc = "called"]
  /\ UNCHANGED <<cwd, steps, mutex>>

\* The guard is dropped when the call returns.
Unlock(t) ==
  /\ th[t].pc = "called"
  /\ th' = [th EXCEPT ![t] = Idle]
  /\ mutex' = NoThread
  /\ UNCHANGED <<files, cwd, steps>>

ThreadNext ==
  \E t \in Threads :
    \/ Lock(t)
    \/ JoinFrom(t)
    \/ JoinTo(t)
    \/ Call(t)
    \/ CopyRead(t)
    \/ CopyWrite(t)
    \/ Unlock(t)

ThreadSpec == Init /\ [][ThreadNext]_vars

(* ------------------------------ claims -------------------------------- *)

\* The keys strictly prefixed by path.
Prefixed(f, path) == {p \in DOMAIN f : p # path /\ starts_with(p, path)}

IsDirNode(f, path) == path \in DOMAIN f /\ f[path].type = "Dir"

IsFileNode(f, path) == path \in DOMAIN f /\ f[path].type = "File"

WritableDir(f, path) == IsDirNode(f, path) /\ writable(f[path].mode)

\* P is absent and its parent is an existing writable directory.
NewUnderWritableDir(f, P) ==
  P \notin DOMAIN f /\ has_parent(P) /\ WritableDir(f, parent(P))

\* C1: for every absent absolute path P whose parent is an existing writable
\* directory and every byte sequence B, write_file(P, B) succeeds and a
\* read_file(P) right after it returns exactly B.
C1_WriteReadRoundTrip ==
  \A P \in AbsArgs, B \in ContentArgs :
    NewUnderWritableDir(files, P) =>
      LET w == write_file(files, P, B)
      IN /\ w.kind = "Ok"
         /\ read_file(w.f, P) = [kind |-> "Ok", val |-> B]

C1_Witness ==
  \E P \in AbsArgs, B \in ContentArgs :
    /\ Len(P) > 2
    /\ NewUnderWritableDir(files, P)
    /\ write_file(files, P, B).kind = "Ok"
    /\ read_file(write_file(files, P, B).f, P).val = B

\* C2: for an existing readable File at P, after set_readonly(P, true) a
\* write_file(P, B) fails with PermissionDenied and leaves the content of P
\* unchanged, and read_file(P) still succeeds with the original content.
C2_ReadonlyWriteDenied ==
  \A P \in AbsArgs, B \in ContentArgs :
    (IsFileNode(files, P) /\ readable(files[P].mode)) =>
      LET s == set_readonly(files, P, TRUE)
          w == write_file(s.f, P, B)
      IN /\ s.kind = "Ok"
         /\ w.kind = "PermissionDenied"
         /\ w.f[P].contents = files[P].contents
         /\ read_file(w.f, P) = [kind |-> "Ok", val |-> files[P].contents]

\* Where rename(from, to) is to put the descendant D of from.
Moved(D, from, to) == join(to, strip_prefix(D, from))

\* Every key below path hangs in a chain of Directory nodes down from path.
TreeBelow(f, path) ==
  \A D \in Prefixed(f, path) : IsDirNode(f, parent(D))

\* C3: renaming a directory from to a non-existent destination to preserves
\* every descendant: each descendant D of from (File, Directory or Symlink,
\* whatever its mode) is afterwards found at to.join(D.strip_prefix(from))
\* with the type and content it had.  Stated for a destination under an
\* existing writable directory outside from and a tree-shaped subtree.
C3_RenamePreservesDescendants ==
  \A from \in AbsArgs, to \in AbsArgs :
    (/\ IsDirNode(files, from)
     /\ NewUnderWritableDir(files, to)
     /\ ~starts_with(to, from)
     /\ TreeBelow(files, from)) =>
      \A o \in rename(files, from, to) :
        \A D \in Prefixed(files, from) :
          LET N == Moved(D, from, to)
          IN /\ N \in DOMAIN o.f
             /\ o.f[N].type = files[D].type
             /\ o.f[N].contents = files[D].contents
             /\ o.f[N].source = files[D].source

\* from is a directory whose subtree (from and every key prefixed by it)
\* holds only writable directories and files.
PlainSubtree(f, from) ==
  /\ WritableDir(f, from)
  /\ \A D \in Prefixed(f, from) : WritableDir(f, D) \/ IsFileNode(f, D)

\* C4: for a directory from whose subtree holds only writable directories
\* and files, and an absent destination to whose parent is an existing
\* writable directory outside from, rename(from, to) succeeds, every file
\* under to reads back what it did under from, and afterwards neither from
\* nor any path prefixed by from exists.
C4_RenameMovesSubtree ==
  \A from \in AbsArgs, to \in AbsArgs :
    (/\ PlainSubtree(files, from)
     /\ NewUnderWritableDir(files, to)
     /\ ~starts_with(parent(to), from)) =>
      \A o \in rename(files, from, to) :
        /\ o.kind = "Ok"
        /\ \A D \in Prefixed(files, from) :
             IsFileNode(files, D) =>
               /\ IsFileNode(o.f, Moved(D, from, to))
               /\ o.f[Moved(D, from, to)].contents = files[D].contents
               /\ read_file(o.f, Moved(D, from, to)) = read_file(files, D)
        /\ \A p \in DOMAIN o.f : ~starts_with(p, from)

\* C5: in every reachable state the root path is present and a Directory.
C5_RootInvariant == IsDirNode(files, Root)

\* C6: in every reachable state every key other than the root has its parent
\* path present and resolving, after symlink indirection, to a Directory.
C6_ParentInvariant ==
  \A k \in DOMAIN files :
    k # Root => (has_parent(k) /\ is_dir(files, parent(k)))

\* C7: remove_dir(P) on a directory P with at least one descendant fails
\* with kind Other and leaves the namespace unchanged; it succeeds only when
\* P has no descendant.
C7_RemoveDirNonEmpty ==
  \A P \in AbsArgs :
    IsDirNode(files, P) =>
      LET r == remove_dir(files, P)
      IN /\ Prefixed(files, P) # {} => (r.kind = "Other" /\ r.f = files)
         /\ r.kind = "Ok" => Prefixed(files, P) = {}

C7_Witness ==
  \E P \in AbsArgs :
    /\ IsDirNode(files, P)
    /\ P # Root
    /\ Prefixed(files, P) # {}
    /\ remove_dir(files, P) = Res(files, "Other")

\* C8 as stated: remove_dir_all(P) on an existing directory P succeeds
\* whenever every descendant of P is readable, whatever the mode of P, and
\* then neither P nor any descendant of P exists.
C8_RemoveDirAllAnyMode ==
  \A P \in AbsArgs :
    (IsDirNode(files, P) /\ \A d \in Prefixed(files, P) : readable(files[d].mode)) =>
      LET r == remove_dir_all(files, P)
      IN /\ r.kind = "Ok"
         /\ \A k \in DOMAIN r.f : ~starts_with(k, P)

\* C8 amended: remove_dir_all(P) on an existing directory P whose own mode
\* has a write bit succeeds whenever every descendant of P is readable, and
\* then neither P nor any descendant of P exists; when P has no write bit
\* it fails with PermissionDenied.
C8_RemoveDirAllWritable ==
  \A P \in AbsArgs :
    (IsDirNode(files, P) /\ \A d \in Prefixed(files, P) : readable(files[d].mode)) =>
      LET r == remove_dir_all(files, P)
      IN IF writable(files[P].mode)
         THEN /\ r.kind = "Ok"
              /\ \A k \in DOMAIN r.f : ~starts_with(k, P)
         ELSE r.kind = "PermissionDenied"

C8_Witness ==
  \E P \in AbsArgs :
    /\ WritableDir(files, P)
    /\ P # Root
    /\ \E d \in Prefixed(files, P) : Len(d) > Len(P) + 1
    /\ \A d \in Prefixed(files, P) : readable(files[d].mode)
    /\ remove_dir_all(files, P).kind = "Ok"
    /\ DOMAIN remove_dir_all(files, P).f = DOMAIN files \ ({P} \cup Prefixed(files, P))

\* C9: if any descendant of the directory P has no read bit,
\* remove_dir_all(P) fails with PermissionDenied and no node is removed or
\* changed.
C9_RemoveDirAllAllOrNothing ==
  \A P \in AbsArgs :
    (IsDirNode(files, P) /\ \E d \in Prefixed(files, P) : ~readable(files[d].mode)) =>
      remove_dir_all(files, P) = Res(files, "PermissionDenied")

C9_Witness ==
  \E P \in AbsArgs :
    /\ WritableDir(files, P)
    /\ \E d \in Prefixed(files, P) : ~readable(files[d].mode)
    /\ \E d \in Prefixed(files, P) : readable(files[d].mode)
    /\ remove_dir_all(files, P) = Res(files, "PermissionDenied")

\* The path reached from path by following k symlinks (<<>> if there are
\* fewer than k to follow).
RECURSIVE Walk(_, _, _)
Walk(f, path, k) ==
  IF k = 0 THEN path
  ELSE IF path \in DOMAIN f /\ f[path].type = "Symlink"
       THEN Walk(f, f[path].source, k - 1)
       ELSE <<>>

\* A is a symlink on a cycle of symlinks.
OnCycle(f, A) ==
  /\ A \in DOMAIN f
  /\ f[A].type = "Symlink"
  /\ \E k \in 1..Cardinality(DOMAIN f) : Walk(f, A, k) = A

Dangling(f, path) ==
  /\ path \in DOMAIN f
  /\ f[path].type = "Symlink"
  /\ \E k \in 1..Cardinality(DOMAIN f) :
       Walk(f, path, k) # <<>> /\ Walk(f, path, k) \notin DOMAIN f

Beneath(A) == {A \o <<"a">>, A \o <<"b">>}

\* What C10 says of every operation but rename: through a symlink A on a
\* cycle the reads and writes, read_dir and the creation of an absent path
\* beneath A end with kind Other and leave the namespace as it is.
CycleOpsFail(f, A) ==
  /\ read_file(f, A).kind = "Other"
  /\ read_dir(f, A).kind = "Other"
  /\ \A B \in ContentArgs :
       /\ read_file_into(f, A, B) = [kind |-> "Other", buf |-> B, val |-> 0]
       /\ write_file(f, A, B) = Res(f, "Other")
       /\ overwrite_file(f, A, B) = Res(f, "Other")
       /\ \A c \in Beneath(A) :
            c \notin DOMAIN f =>
              /\ create_file(f, c, B) = Res(f, "Other")
              /\ create_dir(f, c) = Res(f, "Other")

\* C10 as stated: through a member A of a symlink cycle every dereferencing
\* operation, a rename of an existing node onto A included, ends with the
\* loop error (kind Other) and leaves the namespace unchanged.
C10_CycleAlwaysOther ==
  \A A \in DOMAIN files :
    OnCycle(files, A) =>
      /\ CycleOpsFail(files, A)
      /\ \A from \in DOMAIN files :
           rename(files, from, A) = {Res(files, "Other")}

\* C10 amended: the same, with the rename onto A from a source that exists
\* and is not a dangling symlink (from a dangling symlink the rename ends
\* with NotFound, still without changing the namespace).
C10_CycleOther ==
  \A A \in DOMAIN files :
    OnCycle(files, A) =>
      /\ CycleOpsFail(files, A)
      /\ \A from \in DOMAIN files :
           IF Dangling(files, from)
           THEN rename(files, from, A) = {Res(files, "NotFound")}
           ELSE rename(files, from, A) = {Res(files, "Other")}

C10_Witness ==
  \E A \in DOMAIN files, B \in DOMAIN files :
    /\ A # B
    /\ OnCycle(files, A)
    /\ files[A].source = B
    /\ files[B].source = A
    /\ read_file(files, A).kind = "Other"
    /\ rename(files, Root, A) = {Res(files, "Other")}

\* P and every ancestor of P up to the root.
Ancestors(P) == {SubSeq(P, 1, k) : k \in 1..Len(P)}

\* C11: in every reachable state, if create_dir_all(P) returns Ok for an
\* absolute path P, then right afterwards is_dir(Q) holds for P and for
\* every ancestor Q of P up to the root.
C11_CreateDirAllChain ==
  \A P \in AbsArgs :
    LET c == create_dir_all(files, P)
    IN c.kind = "Ok" => \A Q \in Ancestors(P) : is_dir(c.f, Q)

\* C12: overwrite_file never creates: on an absent path P it fails with
\* NotFound, and after any failing overwrite_file the set of keys and the
\* content of every node are as before.
C12_OverwriteNeverCreates ==
  \A P \in AbsArgs, B \in ContentArgs :
    LET o == overwrite_file(files, P, B)
    IN /\ P \notin DOMAIN files => o.kind = "NotFound"
       /\ o.kind # "Ok" => o.f = files

C12_Witness ==
  \E P \in AbsArgs, Q \in AbsArgs, B \in ContentArgs :
    /\ NewUnderWritableDir(files, P)
    /\ overwrite_file(files, P, B) = Res(files, "NotFound")
    /\ IsFileNode(files, Q)
    /\ files[Q].contents # B
    /\ ~writable(files[Q].mode)
    /\ overwrite_file(files, Q, B).kind # "Ok"
    /\ overwrite_file(files, Q, B).f = files

\* The path of the node P resolves to through its chain of symlinks.
Target(f, P) == recurse_symlink(f, P).path

\* P resolves, directly or through symlinks, to a File with a write bit.
WritableFileAt(f, P) ==
  ResolvesTo(f, P, "File") /\ writable(f[Target(f, P)].mode)

\* P is a symlink that resolves to a File without write bit.
LinkToReadonlyFile(f, P) ==
  /\ P \in DOMAIN f
  /\ f[P].type = "Symlink"
  /\ ResolvesTo(f, P, "File")
  /\ ~writable(f[Target(f, P)].mode)

\* write_file(P, B) on the namespace f is write-or-create.
WriteOrCreate(f, P, B) ==
  LET w == write_file(f, P, B)
  IN IF P \notin DOMAIN f THEN w = create_file(f, P, B)
     ELSE IF WritableFileAt(f, P)
          THEN /\ w.kind = "Ok"
               /\ w.f = [f EXCEPT ![Target(f, P)].contents = B]
          ELSE /\ w.kind = get_file_mut(f, P)
               /\ w.kind # "Ok"
               /\ w.f = f

\* C13: write_file(P, B) replaces the content of an existing writable File
\* at P and adds no key; on an absent P (also right after a successful
\* remove_file(P)) it has the effect and result of create_file(P, B); when
\* P exists but is not a writable file it returns the lookup error and
\* creates or changes nothing.
C13_WriteOrCreate ==
  \A P \in AbsArgs, B \in ContentArgs :
    /\ WriteOrCreate(files, P, B)
    /\ remove_file(files, P).kind = "Ok" =>
         WriteOrCreate(remove_file(files, P).f, P, B)

\* Thread t, when inside a facade call, holds the lock alone, and what it
\* has joined and read so far is what the shared Registry gives now.
InsideCall(t) ==
  th[t].pc # "idle" =>
    /\ mutex = t
    /\ \A u \in Threads \ {t} : th[u].pc = "idle"
    /\ th[t].pc \in {"from", "joined", "read"} =>
         th[t].from = resolve(files, cwd, th[t].arg_from)
    /\ (th[t].pc \in {"joined", "read"} /\ th[t].op \in TwoPathOps) =>
         th[t].to = resolve(files, cwd, th[t].arg_to)
    /\ th[t].pc = "read" => th[t].read = read_file(files, th[t].from)

\* A step changes the namespace or the working directory only by completing
\* the call of one thread, and what a completed call leaves is an outcome of
\* that facade call taken as a single step from the state before it.
SerialStep ==
  /\ <<files, cwd>>' # <<files, cwd>> =>
       \E t \in Threads : th[t].pc # "called" /\ th'[t].pc = "called"
  /\ \A t \in Threads :
       (th[t].pc # "called" /\ th'[t].pc = "called") =>
         [f |-> files', cwd |-> cwd'] \in
           facade_call(th[t].op, files, cwd, th[t].arg_from, th[t].arg_to, th[t].buf)

\* C14: with several threads calling one shared FakeFileSystem, each call
\* reads the working directory, joins its path or paths and runs its
\* Registry method inside one critical section: every execution is a
\* sequence of whole facade calls, both paths of rename and copy_file are
\* joined to the same working directory, and nothing takes effect between
\* copy_file's read of from and its write of to.
C14_Atomic == [](\A t \in Threads : InsideCall(t)) /\ [][SerialStep]_vars

C14_Witness ==
  /\ cwd = <<"/", "a">>
  /\ mutex = "t1"
  /\ th["t1"].pc = "read"
  /\ th["t1"].arg_from = <<"b">>
  /\ th["t1"].from = <<"/", "a", "b">>
  /\ th["t1"].to = <<"/", "a">>
  /\ th["t2"].pc = "idle"

\* The parent of k resolves in f, through symlinks, to a Directory.
ParentDir(f, k) == has_parent(k) /\ ResolvesTo(f, parent(k), "Dir")

\* ... to a Directory with a write bit.
ParentWritable(f, k) ==
  ParentDir(f, k) /\ writable(f[Target(f, parent(k))].mode)

\* The outcome o of an operation that was to add the key P to f obeys the
\* gate: each key it added lies under a writable directory (of f, or of the
\* outcome when the operation added the parent too) ...
AddsGated(f, o) ==
  \A k \in DOMAIN o.f \ DOMAIN f :
    k # Root => (ParentWritable(f, k) \/ ParentWritable(o.f, k))

\* ... and when P is absent and its parent resolves to a directory without
\* write bit, it failed with PermissionDenied and added nothing.
DeniedGated(f, o, P) ==
  (P \notin DOMAIN f /\ ParentDir(f, P) /\ ~ParentWritable(f, P)) =>
    (o.kind = "PermissionDenied" /\ DOMAIN o.f \subseteq DOMAIN f)

\* The outcomes of the operations that add the key P.
Insertions(f, P) ==
  {create_dir(f, P)}
    \cup {create_file(f, P, B) : B \in ContentArgs}
    \cup {write_file(f, P, B) : B \in ContentArgs}
    \cup {symlink(f, S, P) : S \in AbsArgs}

\* C15: no operation that adds a key (create_dir, create_file, write_file
\* when creating, symlink, the re-insertion done by rename) adds an entry
\* whose parent resolves, after symlink indirection, to something other
\* than a Directory with a write bit; when the resolved parent directory
\* has no write bit the operation fails with PermissionDenied and adds
\* nothing, also when the parent is reached through a symlink.
C15_InsertionGated ==
  \A P \in AbsArgs :
    /\ \A o \in Insertions(files, P) :
         AddsGated(files, o) /\ DeniedGated(files, o, P)
    /\ \A from \in AbsArgs :
         (IsFileNode(files, from) \/ IsDirNode(files, from)) =>
           \A o \in rename(files, from, P) :
             o.kind # "Overflow" =>
               AddsGated(files, o) /\ DeniedGated(files, o, P)

\* The outcomes of the operations that write the file addressed by P.
FileWrites(f, P) ==
  {write_file(f, P, B) : B \in ContentArgs}
    \cup {overwrite_file(f, P, B) : B \in ContentArgs}
    \cup {copy_file(f, from, P) : from \in AbsArgs}

\* C16: the content of a File whose mode has no write bit is never changed
\* by write_file, overwrite_file or copy_file, whether the file is addressed
\* by its own path or through a chain of symlinks; the call returns an
\* error and creates nothing.
C16_ReadonlyFileKept ==
  \A P \in AbsArgs :
    (ResolvesTo(files, P, "File") /\ ~WritableFileAt(files, P)) =>
      \A o \in FileWrites(files, P) :
        /\ o.kind # "Ok"
        /\ o.f[Target(files, P)].contents = files[Target(files, P)].contents
        /\ DOMAIN o.f = DOMAIN files

\* The buffers a caller hands to read_file_into.
BufArgs == ContentArgs \cup {<<>>}

\* C17: read_file, read_file_to_string and read_file_into on a path that
\* resolves, directly or through symlinks, to a File without read bit fail
\* with PermissionDenied and return no content, and read_file_into leaves
\* the caller's buffer as it was; with a read bit set, read_file_into
\* appends exactly the file's bytes to the buffer and returns their count.
C17_ReadsGated ==
  \A P \in AbsArgs :
    ResolvesTo(files, P, "File") =>
      LET file == files[Target(files, P)]
      IN IF ~readable(file.mode)
         THEN /\ read_file(files, P) = [kind |-> "PermissionDenied", val |-> <<>>]
              /\ read_file_to_string(files, P) =
                   [kind |-> "PermissionDenied", val |-> <<>>]
              /\ \A buf \in BufArgs :
                   read_file_into(files, P, buf) =
                     [kind |-> "PermissionDenied", buf |-> buf, val |-> 0]
         ELSE \A buf \in BufArgs :
                read_file_into(files, P, buf) =
                  [kind |-> "Ok", buf |-> buf \o file.contents,
                   val |-> Len(file.contents)]

C17_Witness ==
  \E P \in AbsArgs :
    /\ P \in DOMAIN files
    /\ files[P].type = "Symlink"
    /\ ResolvesTo(files, P, "File")
    /\ files[Target(files, P)].contents # <<>>
    /\ ~readable(files[Target(files, P)].mode)
    /\ read_file(files, P).kind = "PermissionDenied"
    /\ read_file_into(files, P, <<255>>).buf = <<255>>

\* The namespace f with the node at from re-keyed to to, replacing what was
\* there.
Rekeyed(f, from, to) ==
  [p \in (DOMAIN f \ {from}) \cup {to} |-> IF p = to THEN f[from] ELSE f[p]]

\* C18: for two existing File nodes at from and to, rename(from, to)
\* removes the destination and re-keys the source: afterwards to holds
\* from's content and mode, from is absent and every other key is
\* unchanged.
C18_RenameFileOverFile ==
  \A from \in AbsArgs, to \in AbsArgs :
    (from # to /\ IsFileNode(files, from) /\ IsFileNode(files, to)) =>
      rename(files, from, to) = {Res(Rekeyed(files, from, to), "Ok")}

\* to is a Directory, or a symlink resolving to one, with a key below it.
NonEmptyDirAt(f, to) ==
  /\ to \in DOMAIN f
  /\ f[to].type \in {"Dir", "Symlink"}
  /\ ResolvesTo(f, to, "Dir")
  /\ Prefixed(f, Target(f, to)) # {}

\* rename(from, to) is one of the incompatible pairs.
Incompatible(f, from, to) ==
  \/ IsFileNode(f, from) /\ IsDirNode(f, to)
  \/ IsDirNode(f, from) /\ IsFileNode(f, to)
  \/ IsDirNode(f, from) /\ NonEmptyDirAt(f, to)

\* C19: a rename of a File onto a Directory, of a Directory onto a File, or
\* of a Directory onto a non-empty Directory (also when the destination is
\* a symlink resolving to a non-empty directory) fails with Other and
\* leaves the namespace unchanged.
C19_IncompatibleRenames ==
  \A from \in AbsArgs, to \in AbsArgs :
    Incompatible(files, from, to) =>
      rename(files, from, to) = {Res(files, "Other")}

C19_Witness ==
  \E from \in AbsArgs, to \in AbsArgs :
    /\ IsDirNode(files, from)
    /\ from # Root
    /\ NonEmptyDirAt(files, to)
    /\ files[to].type = "Symlink"
    /\ Target(files, to) # from
    /\ rename(files, from, to) = {Res(files, "Other")}

\* from and to are symlinks, one dangling and the other resolving to a
\* File.
OneDangling(f, from, to) ==
  /\ from # to
  /\ from \in DOMAIN f /\ f[from].type = "Symlink"
  /\ to \in DOMAIN f /\ f[to].type = "Symlink"
  /\ \/ Dangling(f, to) /\ ResolvesTo(f, from, "File")
     \/ Dangling(f, from) /\ ResolvesTo(f, to, "File")

\* C20: when from and to are both symlinks, one of them dangling and the
\* other resolving to a File, rename(from, to) succeeds; afterwards to is
\* the symlink that was at from, with the same stored target, and from is
\* absent.  This holds when to is the dangling one and when from is.
C20_RenameDanglingSymlink ==
  \A from \in AbsArgs, to \in AbsArgs :
    OneDangling(files, from, to) =>
      \A o \in rename(files, from, to) :
        /\ o.kind = "Ok"
        /\ from \notin DOMAIN o.f
        /\ to \in DOMAIN o.f
        /\ o.f[to] = files[from]

\* C21 as stated: create_dir(P) fails with AlreadyExists if P is occupied
\* and with NotFound whenever the parent of P does not resolve to a writable
\* directory (absent, a File, a read-only directory, a symlink not
\* resolving to a directory); in every failing case the namespace is
\* unchanged.
C21_CreateDirNotFound ==
  \A P \in AbsArgs :
    /\ P \in DOMAIN files => create_dir(files, P) = Res(files, "AlreadyExists")
    /\ (P \notin DOMAIN files /\ has_parent(P) /\ ~ParentWritable(files, P)) =>
         create_dir(files, P) = Res(files, "NotFound")

\* The kind create_dir(P) fails with for what lies at the parent of P.
ParentErrorKind(f, P) ==
  CASE parent(P) \notin DOMAIN f -> "NotFound"
    [] IsFileNode(f, parent(P)) -> "Other"
    [] IsDirNode(f, parent(P)) /\ ~writable(f[parent(P)].mode) -> "PermissionDenied"
    [] f[parent(P)].type = "Symlink" /\ ~ResolvesTo(f, parent(P), "Dir") -> "Other"
    [] OTHER -> "Ok"

\* C21 amended: create_dir(P) fails with AlreadyExists if P is occupied;
\* for an absent P it fails with NotFound when the parent is absent, with
\* Other when the parent is a File or a symlink not resolving to a
\* directory, and with PermissionDenied when the parent is a Directory
\* without write bit; in every failing case the namespace is unchanged.
C21_CreateDirKinds ==
  \A P \in AbsArgs :
    /\ P \in DOMAIN files => create_dir(files, P) = Res(files, "AlreadyExists")
    /\ (P \notin DOMAIN files /\ has_parent(P) /\ ParentErrorKind(files, P) # "Ok") =>
         create_dir(files, P) = Res(files, ParentErrorKind(files, P))
    /\ create_dir(files, P).kind # "Ok" => create_dir(files, P).f = files

C21_Witness ==
  \E P \in AbsArgs, Q \in AbsArgs :
    /\ P \notin DOMAIN files /\ IsFileNode(files, parent(P))
    /\ create_dir(files, P) = Res(files, "Other")
    /\ Q \notin DOMAIN files /\ IsDirNode(files, parent(Q))
    /\ parent(Q) # Root
    /\ create_dir(files, Q) = Res(files, "PermissionDenied")

\* from resolves, directly or through symlinks, to a File with a read bit.
ReadableFileAt(f, from) ==
  ResolvesTo(f, from, "File") /\ readable(f[Target(f, from)].mode)

\* After the copy o of from, the path from and the file it resolves to are
\* what they were in f.
SourceKept(f, o, from) ==
  /\ from \in DOMAIN o.f
  /\ o.f[from] = f[from]
  /\ o.f[Target(f, from)] = f[Target(f, from)]

\* C22 as stated: when from resolves to a readable File, a copy_file(from,
\* to) that succeeds leaves read_file(to) equal to the content from had and
\* from itself (key, content, mode) unchanged; when from is a Directory
\* the call fails with InvalidInput and the namespace is unchanged.
C22_CopyReadsBack ==
  \A from \in AbsArgs, to \in AbsArgs :
    /\ ReadableFileAt(files, from) =>
         LET o == copy_file(files, from, to)
         IN o.kind = "Ok" =>
              /\ read_file(o.f, to) =
                   [kind |-> "Ok", val |-> files[Target(files, from)].contents]
              /\ SourceKept(files, o, from)
    /\ IsDirNode(files, from) =>
         copy_file(files, from, to) = Res(files, "InvalidInput")

\* C22 amended: a copy_file(from, to) from a readable File that succeeds
\* leaves to resolving to a File that holds the content from had, which
\* read_file(to) returns when that file has a read bit (PermissionDenied
\* when it has none), and from unchanged; one that fails changes nothing;
\* from a Directory the call fails with InvalidInput and changes nothing.
C22_CopyWrites ==
  \A from \in AbsArgs, to \in AbsArgs :
    /\ ReadableFileAt(files, from) =>
         LET o == copy_file(files, from, to)
             B == files[Target(files, from)].contents
         IN IF o.kind = "Ok"
            THEN /\ ResolvesTo(o.f, to, "File")
                 /\ o.f[Target(o.f, to)].contents = B
                 /\ read_file(o.f, to) =
                      IF readable(o.f[Target(o.f, to)].mode)
                      THEN [kind |-> "Ok", val |-> B]
                      ELSE [kind |-> "PermissionDenied", val |-> <<>>]
                 /\ SourceKept(files, o, from)
            ELSE o.f = files
    /\ IsDirNode(files, from) =>
         copy_file(files, from, to) = Res(files, "InvalidInput")

C22_Witness ==
  \E from \in AbsArgs, to \in AbsArgs :
    /\ IsFileNode(files, from)
    /\ IsFileNode(files, to)
    /\ from # to
    /\ files[from].contents # files[to].contents
    /\ ~readable(files[to].mode)
    /\ copy_file(files, from, to).kind = "Ok"
    /\ copy_file(files, from, to).f[to].contents = files[from].contents
    /\ read_file(copy_file(files, from, to).f, to).kind = "PermissionDenied"

\* The bits of mode outside 0o222.
OutsideWriteBits(m) == m - BitAnd(m, WriteBits)

\* C23: for every existing node P (File, Directory or Symlink, addressed
\* without dereferencing) with mode m and every boolean b, after
\* set_readonly(P, b) the bits of the mode outside 0o222 equal those of m,
\* readonly(P) returns b, the node's type, content and target and every
\* other node are unchanged, and a second set_readonly(P, b) changes
\* nothing more.
C23_SetReadonlyWriteBits ==
  \A P \in DOMAIN files, b \in BOOLEAN :
    LET s == set_readonly(files, P, b)
    IN /\ s.kind = "Ok"
       /\ DOMAIN s.f = DOMAIN files
       /\ OutsideWriteBits(s.f[P].mode) = OutsideWriteBits(files[P].mode)
       /\ readonly(s.f, P) = [kind |-> "Ok", val |-> b]
       /\ s.f = [files EXCEPT ![P].mode = s.f[P].mode]
       /\ set_readonly(s.f, P, b) = s

C23_Witness ==
  \E P \in DOMAIN files :
    /\ files[P].type = "Symlink"
    /\ files[P].mode = 128
    /\ files[P].source \in DOMAIN files
    /\ set_readonly(files, P, TRUE).f[P].mode = 0
    /\ set_readonly(files, P, FALSE).f[P].mode = WriteBits
    /\ set_readonly(files, P, TRUE).f[files[P].source] = files[files[P].source]

\* The kinds the operations that dereference the symlink A end with.
DerefKinds(f, A) ==
  {read_file(f, A).kind, read_dir(f, A).kind, set_current_dir(f, A),
   remove_file(f, A).kind}
    \cup {read_file_into(f, A, B).kind : B \in ContentArgs}
    \cup {overwrite_file(f, A, B).kind : B \in ContentArgs}

\* C24: every operation that must dereference a symlink whose chain ends at
\* an absent path (read_file, read_file_into, overwrite_file, read_dir,
\* set_current_dir, remove_file through that symlink) fails with NotFound.
C24_DanglingNotFound ==
  \A A \in DOMAIN files :
    Dangling(files, A) => DerefKinds(files, A) = {"NotFound"}

\* The stored working directory no longer resolves to a directory.
StaleCwd(f, wd) == current_dir(f, wd) # "Ok"

ResolvedLazily(f, src, dst) ==
  \A B \in ContentArgs :
    LET c == create_file(f, src, B)
        r == remove_file(c.f, src)
    IN (src \notin DOMAIN f /\ c.kind = "Ok") =>
         /\ ~is_file(f, dst)
         /\ is_file(c.f, dst)
         /\ read_file(c.f, dst) = [kind |-> "Ok", val |-> B]
         /\ r.kind = "Ok"
         /\ ~is_file(r.f, dst)
         /\ read_file(r.f, dst).kind # "Ok"

\* C26: symlink(src, dst) issued through the facade stores exactly the src
\* argument as given (a relative src stays relative, an absent src is
\* accepted), and the link is resolved anew on every access: a link made
\* while dangling resolves as soon as its target is created and stops
\* resolving when the target is removed.
C26_SymlinkVerbatim ==
  \A src \in PathArgs, dst \in AbsArgs :
    LET s == facade_results(files, cwd, src, dst, <<>>, 0, FALSE).symlink
    IN s.kind = "Ok" =>
         /\ dst \in DOMAIN s.f
         /\ s.f[dst].type = "Symlink"
         /\ s.f[dst].source = src
         /\ ResolvedLazily(s.f, resolve(files, cwd, src), dst)

\* C27: a failed rename of a file loses nothing: when from is a File node
\* and rename(from, to) returns an error, for any to, the namespace after
\* the call equals the namespace before it, so from keeps its content and
\* an existing to is not removed.
C27_FailedRenameKeepsAll ==
  \A from \in AbsArgs, to \in AbsArgs :
    IsFileNode(files, from) =>
      \A o \in rename(files, from, to) :
        o.kind \notin {"Ok", "Overflow"} => o.f = files

\* The file names of the entries read_dir(path) lists.
EntryNames(f, path) == {e[Len(e)] : e \in read_dir(f, path).val}

\* L is a symlink that resolves to the directory T, another path.
LinkToDir(f, L, T) ==
  /\ L \in DOMAIN f
  /\ f[L].type = "Symlink"
  /\ ResolvesTo(f, L, "Dir")
  /\ T = Target(f, L)

EntryArgs == {<<"a">>, <<"b">>}

\* C28: symlinked directories are transparent: when L is a symlink that
\* resolves to the directory T and create_file(L/x, B) succeeds, then
\* read_file(T/x) returns B, is_file(T/x) is true, read_dir(L) and
\* read_dir(T) list the same entry names, and remove_dir(T) fails because
\* T is not empty.
C28_SymlinkedDirTransparent ==
  \A L \in AbsArgs, T \in AbsArgs, x \in EntryArgs, B \in ContentArgs :
    LET c == create_file(files, L \o x, B)
    IN (LinkToDir(files, L, T) /\ c.kind = "Ok") =>
         /\ read_file(c.f, T \o x) = [kind |-> "Ok", val |-> B]
         /\ is_file(c.f, T \o x)
         /\ read_dir(c.f, L).kind = "Ok"
         /\ read_dir(c.f, T).kind = "Ok"
         /\ EntryNames(c.f, L) = EntryNames(c.f, T)
         /\ remove_dir(c.f, T).kind = "Other"

\* The number of nodes at or below path.
SubtreeSize(f, path) ==
  Cardinality({p \in DOMAIN f : starts_with(p, path)})

\* create_dir_all climbs at most once per component of its path.
CreateDirAllBound(path) == Len(path) + 1

\* move_dir and rename call each other at most once per node moved and once
\* per component of the two paths.
RenameBound(f, from, to) == SubtreeSize(f, from) + Len(from) + Len(to) + 1

\* C29: the recursive operations terminate: in every reachable state
\* create_dir_all(P), for any P passed through the facade, and
\* rename(from, to), with move_dir and rename calling each other, finish
\* after a number of nested calls bounded by the depth of the paths and the
\* size of the subtree, with Ok or an error.
C29_RecursionTerminates ==
  /\ \A P \in PathArgs :
       LET path == resolve(files, cwd, P)
       IN create_dir_all_n(files, path, CreateDirAllBound(path)).kind # "Overflow"
  /\ \A P \in PathArgs, Q \in PathArgs :
       LET from == resolve(files, cwd, P)
           to == resolve(files, cwd, Q)
       IN \A o \in rename_n(files, from, to, RenameBound(files, from, to)) :
            o.kind # "Overflow"

====
